---------------------------- MODULE Spec2Model ----------------------------
(***************************************************************************)
(* Model of the API gateway of doc-search-app                              *)
(* (src/services/api-gateway/main.py): the /query handler process_query,   *)
(* its three downstream calls search_documents, search_web and             *)
(* generate_llm_response, and the tenacity retry decorator that wraps each *)
(* of them.                                                                *)
(*                                                                         *)
(* Strings are sequences of one-character strings, so that slicing, join   *)
(* and concatenation are computed as Python computes them.  Floats are     *)
(* integers in thousandths (0.8 is 800, 0.3 is 300, 0.5 is 500).           *)
(***************************************************************************)
EXTENDS Integers, Sequences, FiniteSets, TLC

(***************************************************************************)
(* Bounds of the model.                                                    *)
(***************************************************************************)
\* Longest result list a search collaborator returns.
MaxResults == 4

(***************************************************************************)
(* Program constants.                                                      *)
(***************************************************************************)
\* stop_after_attempt(3)
StopAfterAttempt == 3
\* wait_exponential(multiplier=1, min=2, max=10)
WaitMultiplier == 1
WaitMin == 2
WaitMax == 10
\* doc_results[:3], web_results[:3]
ContextTopN == 3
\* result["text"][:200], result.get("content", "")[:200]
SourceTextLimit == 200
\* result.get("score", 0.5), in thousandths
DefaultWebScore == 500
\* confidence = 0.8 if context else 0.3, in thousandths
ConfidenceWithContext == 800
ConfidenceWithoutContext == 300
\* HTTPException(status_code=503, ...)
StatusModelUnavailable == 503
\* An exception that leaves the handler is answered by the framework's
\* server-error response; a returned QueryResponse is answered 200.
StatusOk == 200
StatusInternalError == 500

(***************************************************************************)
(* State.                                                                  *)
(***************************************************************************)
VARIABLES
    request,      \* the QueryRequest: use_documents, use_web_search
    pc,           \* the await process_query is suspended at
    context,      \* process_query's local context
    sources,      \* process_query's local sources
    method,       \* process_query's local method
    doc_results,  \* what search_documents returned
    web_results,  \* what search_web returned
    outcomes,     \* per downstream call, the outcome of each attempt made
    waits,        \* per downstream call, the backoff sleeps made
    gen_context,  \* the "context" sent to /generate
    raised,       \* the exception that left process_query, if any
    response,     \* the HTTP answer to /query
    health,       \* the gateway's /health handler: its position and locals
    chunker,      \* a call of DocumentProcessor._chunk_document
    quantizer,    \* a call of DocumentProcessor._binarize_embeddings
    processor,    \* the document service: its DocumentProcessor and the store
    wrapper       \* the web-search service and the gateway's call of it

\* The state of the /query handler.
queryVars == << request, pc, context, sources, method, doc_results, web_results,
                outcomes, waits, gen_context, raised, response >>

vars == << request, pc, context, sources, method, doc_results, web_results,
           outcomes, waits, gen_context, raised, response,
           health, chunker, quantizer, processor, wrapper >>

(***************************************************************************)
(* Python's string and list primitives.                                    *)
(***************************************************************************)
Min(a, b) == IF a <= b THEN a ELSE b
Max(a, b) == IF a >= b THEN a ELSE b

\* s[:n]
Take(s, n) == SubSeq(s, 1, Min(n, Len(s)))

\* sep.join(parts)
RECURSIVE Join(_, _)
Join(sep, parts) ==
    IF Len(parts) = 0 THEN << >>
    ELSE IF Len(parts) = 1 THEN parts[1]
    ELSE parts[1] \o sep \o Join(sep, Tail(parts))

\* d.get(key, default) on a dict modelled as a record with a "keys" field
DictGet(d, key, default) == IF key \in d.keys THEN d[key] ELSE default

\* "\n\n"
BlankLine == << "\n", "\n" >>
\* "..."
Ellipsis == << ".", ".", "." >>
\* "Title: "
TitlePrefix == << "T", "i", "t", "l", "e", ":", " " >>
\* "\nContent: "
ContentPrefix == << "\n", "C", "o", "n", "t", "e", "n", "t", ":", " " >>


(***************************************************************************)
(* What the collaborators can answer.                                      *)
(***************************************************************************)
Chars == << "a", "b", "c" >>
\* A text of n characters whose characters differ by position.
TextOfLen(n) == [i \in 1..n |-> Chars[((i - 1) % 3) + 1]]

\* The empty text, a text of exactly the display limit, and one longer.
HitTexts == { TextOfLen(0), TextOfLen(SourceTextLimit), TextOfLen(SourceTextLimit + 1) }
\* 1 / (1 + distance) for distance 0 and 1, in thousandths.
DocScores == { 1000, 500 }
\* A hit of the document service: {"text": ..., "score": ...}.
DocHits == [text : HitTexts, score : DocScores]

\* Hits of the web-search service; every key may be missing from the dict.
WebHitFull ==
    [keys |-> {"title", "content", "score"}, title |-> << "t" >>,
     content |-> TextOfLen(SourceTextLimit + 1), score |-> 900]
WebHitNoKeys ==
    [keys |-> {}, title |-> << >>, content |-> << >>, score |-> 0]
WebHitNoTitle ==
    [keys |-> {"content", "score"}, title |-> << >>,
     content |-> TextOfLen(SourceTextLimit), score |-> 250]
WebHits == { WebHitFull, WebHitNoKeys, WebHitNoTitle }

ListsOf(S) == UNION { [1..n -> S] : n \in 0..MaxResults }

\* response.json() of a search: {"results": [...]} or a body without the key.
SearchBodies(S) ==
    { [keys |-> {"results"}, results |-> l] : l \in ListsOf(S) }
        \cup { [keys |-> {}, results |-> << >>] }

\* response.json() of /generate: {"response": ...} or a body without the key.
GenerateBodies ==
    { [keys |-> {"response"}, response |-> "generated answer"],
      [keys |-> {}, response |-> ""] }

(***************************************************************************)
(* Exceptions and the outcome of one attempt of a downstream call.         *)
(***************************************************************************)
ConnectError == "ConnectError"
ReadTimeout == "ReadTimeout"
HTTPStatusError == "HTTPStatusError"
RetryError == "RetryError"
NoException == "None"

RETRYABLE_EXCEPTIONS == { ConnectError, ReadTimeout }

\* What one attempt can raise: the request fails to connect, the read times
\* out, or raise_for_status() raises on a non-2xx answer.
AttemptExceptions == { ConnectError, ReadTimeout, HTTPStatusError }

\* tenacity's Future of one attempt: failed with an exception, or a result.
Failed(exc, emptyBody) == [failed |-> TRUE, exception |-> exc, result |-> emptyBody]
Returned(body) == [failed |-> FALSE, exception |-> NoException, result |-> body]

AttemptOutcomes(bodies, emptyBody) ==
    { Failed(exc, emptyBody) : exc \in AttemptExceptions }
        \cup { Returned(b) : b \in bodies }

EmptySearchBody == [keys |-> {}, results |-> << >>]
EmptyGenerateBody == [keys |-> {}, response |-> ""]

\* The class name of an attempt's outcome, for the call history.
OutcomeKind(fut) == IF fut.failed THEN fut.exception ELSE "ok"

(***************************************************************************)
(* The retry decorator: @retry with RETRY_SETTINGS and retry=lambda e: ... *)
(* tenacity hands every callback (retry, stop, wait) the RetryCallState of *)
(* the attempt, an object holding attempt_number and the outcome Future.   *)
(***************************************************************************)
RetryCallState(n, fut) ==
    [class |-> "RetryCallState", attempt_number |-> n, outcome |-> fut]

\* isinstance(obj, classes)
IsInstance(obj, classes) == obj.class \in classes

\* Mutant: the retry callback asks for a retry whenever the attempt raised.
retry_on_any_exception(e) == e.outcome.failed

\* retry=lambda e: isinstance(e, RETRYABLE_EXCEPTIONS); e is the object
\* tenacity passes to the retry callback, the RetryCallState.
retry(e) == IsInstance(e, RETRYABLE_EXCEPTIONS)

\* "stop": stop_after_attempt(3)
stop(retry_state) == retry_state.attempt_number >= StopAfterAttempt

\* "wait": wait_exponential(multiplier=1, min=2, max=10), exp_base 2:
\* max(max(0, min), min(multiplier * 2 ** (attempt_number - 1), max))
wait(retry_state) ==
    Max(Max(0, WaitMin),
        Min(WaitMultiplier * (2 ^ (retry_state.attempt_number - 1)), WaitMax))

\* "reraise": True
reraise == TRUE

\* One pass of the retry loop after an attempt: return the result or
\* re-raise the attempt's exception when the retry callback says no; give
\* up when stop says so (the last exception under reraise, else RetryError);
\* otherwise sleep and attempt again.
RetryIter(retry_state) ==
    LET fut == retry_state.outcome IN
    IF ~retry(retry_state)
    THEN IF fut.failed
         THEN [do |-> "raise", exception |-> fut.exception, sleep |-> 0]
         ELSE [do |-> "return", exception |-> NoException, sleep |-> 0]
    ELSE IF stop(retry_state)
    THEN [do |-> "raise",
          exception |-> IF reraise /\ fut.failed THEN fut.exception ELSE RetryError,
          sleep |-> 0]
    ELSE [do |-> "sleep", exception |-> NoException, sleep |-> wait(retry_state)]

(***************************************************************************)
(* process_query: the pieces of the handler.                               *)
(***************************************************************************)
\* Mutant: the display cut is one character short.
SourceTextOffByOne(text) == Take(text, SourceTextLimit - 1) \o Ellipsis

\* result["text"][:200] + "..."  and  result.get("content", "")[:200] + "..."
SourceText(text) == Take(text, SourceTextLimit) \o Ellipsis

\* "\n\n".join([result["text"] for result in doc_results[:3]])
DocumentContext(results) ==
    LET top == Take(results, ContextTopN)
    IN Join(BlankLine, [i \in 1..Len(top) |-> top[i].text])

\* [SearchResult(text=..., score=result["score"], source="document") for result in doc_results]
DocumentSources(results) ==
    [i \in 1..Len(results) |->
        [text |-> SourceText(results[i].text),
         score |-> results[i].score,
         source |-> "document"]]

\* f"Title: {result.get('title', '')}\nContent: {result.get('content', '')}"
WebBlock(result) ==
    TitlePrefix \o DictGet(result, "title", << >>)
        \o ContentPrefix \o DictGet(result, "content", << >>)

\* "\n\n".join([... for result in web_results[:3]])
WebContext(results) ==
    LET top == Take(results, ContextTopN)
    IN Join(BlankLine, [i \in 1..Len(top) |-> WebBlock(top[i])])

\* [SearchResult(text=..., score=result.get("score", 0.5), source="web") for result in web_results]
WebSources(results) ==
    [i \in 1..Len(results) |->
        [text |-> SourceText(DictGet(results[i], "content", << >>)),
         score |-> DictGet(results[i], "score", DefaultWebScore),
         source |-> "web"]]

\* Mutant: the confidence follows the sources instead of the context.
ConfidenceFromSources(ctx) ==
    IF sources # << >> THEN ConfidenceWithContext ELSE ConfidenceWithoutContext

\* confidence = 0.8 if context else 0.3
Confidence(ctx) ==
    IF ctx # << >> THEN ConfidenceWithContext ELSE ConfidenceWithoutContext

\* Mutant: the "direct" default is forgotten.
MethodWithoutDefault(m) == m

\* method or "direct"
MethodOrDirect(m) == IF m # "" THEN m ELSE "direct"

\* The exception class the handler's except clauses catch: except RetryError.
Caught(exc) == exc = RetryError

\* QueryResponse(answer=..., sources=..., method=..., confidence=...), sent 200.
QueryResponse(ans, srcs, m, conf) ==
    [status_code |-> StatusOk, answer |-> ans, sources |-> srcs,
     method |-> m, confidence |-> conf]

\* The answer to a request that ended in an error status.
ErrorResponse(code) ==
    [status_code |-> code, answer |-> "", sources |-> << >>,
     method |-> "", confidence |-> 0]

NoResponse == ErrorResponse(0)

(***************************************************************************)
(* The handler's steps.                                                    *)
(***************************************************************************)
Calls == { "search_documents", "search_web", "generate_llm_response" }

\* No /health request, no chunker or quantizer call, no document service
\* activity: the state of the other components while /query is followed.
HealthIdle ==
    [pc |-> "idle", i |-> 0, now |-> 0, health_status |-> << >>,
     started_at |-> << >>, probes |-> << >>, raised |-> NoException,
     loaded |-> << >>]
ChunkerIdle ==
    [pc |-> "idle", text |-> << >>, chunk_size |-> 0, chunks |-> << >>,
     rechunked |-> << >>, raised |-> NoException]
QuantizerIdle ==
    [pc |-> "idle", embeddings |-> << >>, packed |-> << >>]
ProcessorIdle ==
    [pc |-> "idle", dimension |-> 0, connected |-> FALSE, reachable |-> TRUE,
     collections |-> 0, drops |-> 0, creates |-> 0, raised |-> NoException,
     rows |-> << >>, pending |-> << >>, dropped |-> 0, last_request |-> "",
     batch |-> << >>, upload_status |-> "", upload_code |-> 0, client_code |-> 0,
     searched |-> << >>, returned |-> << >>,
     search_raised |-> NoException, status_code |-> 0, body |-> << >>]

WrapperIdle ==
    [pc |-> "idle", mcp_server |-> FALSE, caller |-> "", pages |-> << >>,
     method |-> "", rejected |-> 0, status_code |-> 0, answer_keys |-> {},
     found |-> << >>, raised |-> NoException, web_results |-> << >>,
     query_method |-> ""]

outsideQuery == << health, chunker, quantizer, processor, wrapper >>

QueryIdle ==
    /\ request = [use_documents |-> TRUE, use_web_search |-> FALSE]
    /\ pc = "idle"
    /\ context = << >>
    /\ sources = << >>
    /\ method = ""
    /\ doc_results = << >>
    /\ web_results = << >>
    /\ outcomes = [c \in Calls |-> << >>]
    /\ waits = [c \in Calls |-> << >>]
    /\ gen_context = << >>
    /\ raised = NoException
    /\ response = NoResponse

Init ==
    /\ health = HealthIdle
    /\ chunker = ChunkerIdle
    /\ quantizer = QuantizerIdle
    /\ processor = ProcessorIdle
    /\ wrapper = WrapperIdle
    /\ request \in [use_documents : BOOLEAN, use_web_search : BOOLEAN]
    /\ pc = "start"
    /\ context = << >>
    /\ sources = << >>
    /\ method = ""
    /\ doc_results = << >>
    /\ web_results = << >>
    /\ outcomes = [c \in Calls |-> << >>]
    /\ waits = [c \in Calls |-> << >>]
    /\ gen_context = << >>
    /\ raised = NoException
    /\ response = NoResponse

\* if not context and request.use_web_search: ... else the generation call
AfterDocuments(ctx) ==
    IF ctx = << >> /\ request.use_web_search
    THEN "search_web" ELSE "generate_llm_response"

\* An exception leaves process_query: the framework answers 500.
Escapes(exc) ==
    /\ pc' = "done"
    /\ raised' = exc
    /\ response' = ErrorResponse(StatusInternalError)

\* The retry loop sleeps and the same call is attempted again.
Sleeps(call, seconds) ==
    /\ waits' = [waits EXCEPT ![call] = Append(@, seconds)]
    /\ UNCHANGED << pc, raised, response >>

\* Lines 79-84: the locals are set, and the first await is reached.
Start ==
    /\ pc = "start"
    /\ pc' = IF request.use_documents THEN "search_documents"
             ELSE AfterDocuments(context)
    /\ UNCHANGED << request, context, sources, method, doc_results, web_results,
                    outcomes, waits, gen_context, raised, response >>
    /\ UNCHANGED outsideQuery

\* Lines 85-99 with one attempt of search_documents (lines 145-154).
SearchDocuments ==
    /\ pc = "search_documents"
    /\ \E fut \in AttemptOutcomes(SearchBodies(DocHits), EmptySearchBody) :
         LET n == Len(outcomes["search_documents"]) + 1
             step == RetryIter(RetryCallState(n, fut))
             results == DictGet(fut.result, "results", << >>)
         IN
         /\ outcomes' = [outcomes EXCEPT !["search_documents"] = Append(@, OutcomeKind(fut))]
         /\ CASE step.do = "sleep" ->
                   /\ Sleeps("search_documents", step.sleep)
                   /\ UNCHANGED << context, sources, method, doc_results >>
              [] step.do = "return" ->
                   /\ doc_results' = results
                   /\ context' = IF results # << >> THEN DocumentContext(results) ELSE context
                   /\ sources' = IF results # << >> THEN DocumentSources(results) ELSE sources
                   /\ method' = IF results # << >> THEN "document" ELSE method
                   /\ pc' = AfterDocuments(context')
                   /\ UNCHANGED << waits, raised, response >>
              [] step.do = "raise" ->
                   /\ IF Caught(step.exception)
                      THEN /\ pc' = AfterDocuments(context)
                           /\ UNCHANGED << raised, response >>
                      ELSE Escapes(step.exception)
                   /\ UNCHANGED << waits, context, sources, method, doc_results >>
    /\ UNCHANGED << request, web_results, gen_context >>
    /\ UNCHANGED outsideQuery

\* Lines 102-120 with one attempt of search_web (lines 157-166).
SearchWeb ==
    /\ pc = "search_web"
    /\ \E fut \in AttemptOutcomes(SearchBodies(WebHits), EmptySearchBody) :
         LET n == Len(outcomes["search_web"]) + 1
             step == RetryIter(RetryCallState(n, fut))
             results == DictGet(fut.result, "results", << >>)
         IN
         /\ outcomes' = [outcomes EXCEPT !["search_web"] = Append(@, OutcomeKind(fut))]
         /\ CASE step.do = "sleep" ->
                   /\ Sleeps("search_web", step.sleep)
                   /\ UNCHANGED << context, sources, method, web_results >>
              [] step.do = "return" ->
                   /\ web_results' = results
                   /\ context' = IF results # << >> THEN WebContext(results) ELSE context
                   /\ sources' = IF results # << >> THEN WebSources(results) ELSE sources
                   /\ method' = IF results # << >> THEN "web_search" ELSE method
                   /\ pc' = "generate_llm_response"
                   /\ UNCHANGED << waits, raised, response >>
              [] step.do = "raise" ->
                   /\ IF Caught(step.exception)
                      THEN /\ pc' = "generate_llm_response"
                           /\ UNCHANGED << raised, response >>
                      ELSE Escapes(step.exception)
                   /\ UNCHANGED << waits, context, sources, method, web_results >>
    /\ UNCHANGED << request, doc_results, gen_context >>
    /\ UNCHANGED outsideQuery

\* Lines 122-141 with one attempt of generate_llm_response (lines 169-183).
GenerateLlmResponse ==
    /\ pc = "generate_llm_response"
    /\ \E fut \in AttemptOutcomes(GenerateBodies, EmptyGenerateBody) :
         LET n == Len(outcomes["generate_llm_response"]) + 1
             step == RetryIter(RetryCallState(n, fut))
             answer == DictGet(fut.result, "response", "I couldn't generate a response.")
         IN
         /\ outcomes' = [outcomes EXCEPT !["generate_llm_response"] = Append(@, OutcomeKind(fut))]
         /\ gen_context' = context
         /\ CASE step.do = "sleep" ->
                   Sleeps("generate_llm_response", step.sleep)
              [] step.do = "return" ->
                   /\ pc' = "done"
                   /\ response' = QueryResponse(answer, sources, MethodOrDirect(method),
                                                Confidence(context))
                   /\ UNCHANGED << waits, raised >>
              [] step.do = "raise" ->
                   /\ IF Caught(step.exception)
                      THEN /\ pc' = "done"
                           /\ response' = ErrorResponse(StatusModelUnavailable)
                           /\ UNCHANGED raised
                      ELSE Escapes(step.exception)
                   /\ UNCHANGED waits
    /\ UNCHANGED << request, context, sources, method, doc_results, web_results >>
    /\ UNCHANGED outsideQuery

Next ==
    \/ Start
    \/ SearchDocuments
    \/ SearchWeb
    \/ GenerateLlmResponse

Spec == Init /\ [][Next]_vars

(***************************************************************************)
(* Vocabulary of the claims.                                               *)
(***************************************************************************)
Done == pc = "done"
Succeeded == Done /\ response.status_code = StatusOk
Attempts(call) == Len(outcomes[call])
\* The call was made and its last attempt returned a body.
CallReturned(call) ==
    Attempts(call) > 0 /\ outcomes[call][Attempts(call)] = "ok"
\* The call was made and is over: the handler has moved past it.
CallOver(call) ==
    Attempts(call) > 0 /\ pc # call
\* Every attempt made of the call ended in an exception of the given classes.
EveryAttemptIn(call, classes) ==
    \A i \in 1..Attempts(call) : outcomes[call][i] \in classes

(***************************************************************************)
(* C1: if the document search returns a non-empty list, search_web is      *)
(* never called during the request, whatever use_web_search is.            *)
(* Stated as the claim states it; the handler decides on `not context`.    *)
(***************************************************************************)
C1_NoWebSearchAfterDocumentHits ==
    (CallReturned("search_documents") /\ doc_results # << >>)
        => Attempts("search_web") = 0

(***************************************************************************)
(* C2: a failed document or web search (connection error or read timeout   *)
(* on every attempt, or a non-2xx status) does not fail the request: the   *)
(* next stage runs (web search if enabled, then generation) and, if        *)
(* generation succeeds, a successful response is returned.                 *)
(***************************************************************************)
C2_SearchFailureIsAbsorbed ==
    \A call \in { "search_documents", "search_web" } :
        (Done /\ Attempts(call) > 0 /\ EveryAttemptIn(call, AttemptExceptions))
            => /\ (call = "search_documents" /\ request.use_web_search)
                      => Attempts("search_web") > 0
               /\ Attempts("generate_llm_response") > 0
               /\ CallReturned("generate_llm_response")
                      => response.status_code = StatusOk

(***************************************************************************)
(* C3: if every attempt of the generation call times out, the request      *)
(* ends with the 503 of process_query, after at most 3 attempts.           *)
(***************************************************************************)
C3_GenerationTimeoutsGive503 ==
    (Done /\ Attempts("generate_llm_response") > 0
          /\ EveryAttemptIn("generate_llm_response", { ReadTimeout }))
        => /\ response.status_code = StatusModelUnavailable
           /\ Attempts("generate_llm_response") <= StopAfterAttempt

(***************************************************************************)
(* C4: if the document search raises a transient error on its first and    *)
(* second attempts and returns a non-empty list on its third, the request  *)
(* completes with method "document" and no error reaches the caller.       *)
(* The premise: every attempt made so far follows that scenario.           *)
(***************************************************************************)
FollowsTwoTransientThenHits ==
    /\ Attempts("search_documents") > 0
    /\ \A i \in 1..Attempts("search_documents") :
          /\ i <= 2 => outcomes["search_documents"][i] \in RETRYABLE_EXCEPTIONS
          /\ i = 3 => outcomes["search_documents"][i] = "ok" /\ doc_results # << >>
          /\ i <= 3

C4_ThirdAttemptSucceeds ==
    (Done /\ FollowsTwoTransientThenHits
          /\ (Attempts("generate_llm_response") > 0
                 => CallReturned("generate_llm_response")))
        => /\ response.status_code = StatusOk
           /\ response.method = "document"
           /\ raised = NoException

C6_BackoffWaitsAreTwoThenFour ==
    \A call \in Calls :
        (CallOver(call) /\ EveryAttemptIn(call, RETRYABLE_EXCEPTIONS))
            => waits[call] = << 2, 4 >>

(***************************************************************************)
(* C7: in every response, if document retrieval (when enabled) yielded no  *)
(* results and web retrieval (when enabled) yielded no results, then       *)
(* method = "direct", confidence = 0.3 and sources = [].                   *)
(***************************************************************************)
C7_NoResultsGiveDirect ==
    (/\ Succeeded
     /\ request.use_documents => doc_results = << >>
     /\ request.use_web_search => web_results = << >>)
        => /\ response.method = "direct"
           /\ response.confidence = 300
           /\ response.sources = << >>

C7_Witness ==
    /\ Succeeded
    /\ request.use_documents /\ request.use_web_search
    /\ CallReturned("search_documents") /\ doc_results = << >>
    /\ CallReturned("search_web") /\ web_results = << >>
    /\ response.method = "direct"

(***************************************************************************)
(* C8: in every successful response, confidence is 0.8 exactly when the    *)
(* context sent to the generation call is non-empty and 0.3 otherwise,     *)
(* whatever the scores of the retrieved hits.                              *)
(***************************************************************************)
C8_ConfidenceFollowsContext ==
    Succeeded
        => /\ response.confidence \in { 800, 300 }
           /\ response.confidence = 800 <=> Len(gen_context) > 0

\* A hit with the best score and an empty text: sources are reported, the
\* context sent to generation is empty, and the confidence is 0.3.
C8_Witness ==
    /\ Succeeded
    /\ Len(response.sources) > 0
    /\ response.sources[1].score = 1000
    /\ gen_context = << >>
    /\ response.confidence = 300

(***************************************************************************)
(* C9: when a retrieval source returns n >= 1 results, the context sent to *)
(* generation is built from exactly the first min(3, n) of them in rank    *)
(* order, joined by a blank line, and sources has one entry per returned   *)
(* result, all n, in the same order.                                       *)
(***************************************************************************)
FirstTexts(results, Text(_)) ==
    [i \in 1..Min(ContextTopN, Len(results)) |-> Text(results[i])]

BuiltFrom(results, Text(_), Score(_), origin) ==
    /\ gen_context = Join(BlankLine, FirstTexts(results, Text))
    /\ Len(response.sources) = Len(results)
    /\ \A i \in 1..Len(results) :
          /\ response.sources[i].score = Score(results[i])
          /\ response.sources[i].source = origin

DocText(hit) == hit.text
DocScore(hit) == hit.score
WebScore(hit) == IF "score" \in hit.keys THEN hit.score ELSE DefaultWebScore

C9_ContextAndSourcesOfEverySource ==
    Succeeded
        => /\ doc_results # << >>
                 => BuiltFrom(doc_results, DocText, DocScore, "document")
           /\ web_results # << >>
                 => BuiltFrom(web_results, WebBlock, WebScore, "web")

(***************************************************************************)
(* C10: every entry of sources carries its hit's text cut for display.     *)
(* As claimed: at most 200 characters, and the full hit text whenever that *)
(* has 200 characters or fewer.  As the handler does it: the first 200     *)
(* characters of the hit text followed by "...", so at most 203            *)
(* characters, and the full hit text followed by "..." whenever that text  *)
(* has 200 characters or fewer.                                            *)
(***************************************************************************)
\* The hit texts the entries of sources were made from.
SourceHitTexts ==
    IF web_results # << >>
    THEN [i \in 1..Len(web_results) |->
            IF "content" \in web_results[i].keys THEN web_results[i].content ELSE << >>]
    ELSE [i \in 1..Len(doc_results) |-> doc_results[i].text]

C10_Original_SourceTextAtMost200 ==
    Succeeded
        => /\ Len(response.sources) = Len(SourceHitTexts)
           /\ \A i \in 1..Len(response.sources) :
                 /\ Len(response.sources[i].text) <= 200
                 /\ Len(SourceHitTexts[i]) <= 200
                        => response.sources[i].text = SourceHitTexts[i]

C10_SourceTextIsPrefixPlusEllipsis ==
    Succeeded
        => /\ Len(response.sources) = Len(SourceHitTexts)
           /\ \A i \in 1..Len(response.sources) :
                 LET shown == response.sources[i].text
                     hit == SourceHitTexts[i]
                     kept == IF Len(hit) <= 200 THEN Len(hit) ELSE 200
                 IN /\ Len(shown) = kept + 3
                    /\ Len(shown) <= 203
                    /\ \A j \in 1..kept : shown[j] = hit[j]
                    /\ \A j \in (kept + 1)..(kept + 3) : shown[j] = "."
                    /\ Len(hit) <= 200 => shown = hit \o << ".", ".", "." >>

\* A response whose sources hold a cut hit (201 characters) and an uncut one.
C10_Witness ==
    /\ Succeeded
    /\ \E i \in 1..Len(response.sources) :
          Len(SourceHitTexts[i]) = 201 /\ Len(response.sources[i].text) = 203
    /\ \E i \in 1..Len(response.sources) :
          Len(SourceHitTexts[i]) = 200 /\ Len(response.sources[i].text) = 203

(***************************************************************************)
(* The gateway's /health handler (main.py, health_check).                  *)
(* Time is counted in the units of the probe timeout; the handler is       *)
(* entered at time 0.                                                      *)
(***************************************************************************)
\* client.get(..., timeout=5.0)
HealthTimeout == 5

\* services = [("document-service", ...), ("llm-service", ...), ("web-search-service", ...)]
services == << "document-service", "llm-service", "web-search-service" >>

\* What one probe can end in: an answer with a status code, or an exception
\* (the connection fails, or the timeout expires), after some time.  The
\* "status" of the answer's body is filled in by the dependency.
ProbeOutcomes ==
    { [kind |-> "response", status_code |-> c, exception |-> NoException, duration |-> d,
       body_status |-> ""] :
          c \in { 200, 404, 503 }, d \in 0..(HealthTimeout - 1) }
    \cup { [kind |-> "raises", status_code |-> 0, exception |-> ConnectError, duration |-> d,
            body_status |-> ""] :
          d \in 0..(HealthTimeout - 1) }
    \cup { [kind |-> "raises", status_code |-> 0, exception |-> ReadTimeout,
            duration |-> HealthTimeout, body_status |-> ""] }

\* The dependencies whose /health handler looks at what the module loaded
\* at import: llm (vllm_server.py) and mcp_server (fastapi_wrapper.py).
LoadingServices == { "llm-service", "web-search-service" }

\* GET /health of a dependency, which its handler always answers 200:
\* "status" is "healthy" if llm (mcp_server) is not None else "unhealthy";
\* the document service always says "healthy".
DependencyHealth(name, loaded) ==
    IF name \in LoadingServices /\ ~loaded[name] THEN "unhealthy" ELSE "healthy"

\* The outcome of a probe of the named dependency, with the body of a 200.
Probed(outcome, name, loaded) ==
    IF outcome.kind = "response" /\ outcome.status_code = StatusOk
    THEN [outcome EXCEPT !.body_status = DependencyHealth(name, loaded)]
    ELSE outcome

\* Mutant: every answer counts as healthy, whatever its status.
AnyAnswerIsHealthy(status_code) == "healthy"

\* if response.status_code == 200: "healthy" else: "unhealthy"
StatusOf(status_code) ==
    IF status_code = 200 THEN "healthy" ELSE "unhealthy"

\* except Exception: every exception a probe raises is caught.
HealthCaught(exc) == exc \in { ConnectError, ReadTimeout, HTTPStatusError }

\* The entry a finished probe leaves in health_status.
ProbeEntry(outcome) ==
    IF outcome.kind = "response" THEN StatusOf(outcome.status_code)
    ELSE "unreachable"

outsideHealth == << chunker, quantizer, processor, wrapper >>

\* Each of llm and mcp_server was loaded when its service started, or is
\* None.
HealthInit ==
    /\ QueryIdle
    /\ \E loaded \in [LoadingServices -> BOOLEAN] :
          health = [HealthIdle EXCEPT !.loaded = loaded]
    /\ chunker = ChunkerIdle
    /\ quantizer = QuantizerIdle
    /\ processor = ProcessorIdle
    /\ wrapper = WrapperIdle

\* Lines 189-201: health_status is created and the first probe is sent.
HealthCheck ==
    /\ health.pc = "idle"
    /\ health' = [health EXCEPT
                    !.pc = "probing",
                    !.i = 1,
                    !.health_status = ("gateway" :> "healthy"),
                    !.started_at = (services[1] :> health.now)]
    /\ UNCHANGED queryVars
    /\ UNCHANGED outsideHealth

\* Lines 201-209: the awaited probe ends; its entry is written; the loop
\* sends the next probe, or the handler returns health_status.
ProbeEnds ==
    /\ health.pc = "probing"
    /\ \E outcome \in ProbeOutcomes :
         LET name == services[health.i]
             later == health.now + outcome.duration
             last == health.i = Len(services)
         IN
         IF outcome.kind = "raises" /\ ~HealthCaught(outcome.exception)
         THEN health' = [health EXCEPT
                           !.pc = "raised",
                           !.now = later,
                           !.probes = (name :> Probed(outcome, name, health.loaded)) @@ @,
                           !.raised = outcome.exception]
         ELSE health' = [health EXCEPT
                           !.pc = IF last THEN "returned" ELSE "probing",
                           !.i = IF last THEN @ ELSE @ + 1,
                           !.now = later,
                           !.probes = (name :> Probed(outcome, name, health.loaded)) @@ @,
                           !.health_status = (name :> ProbeEntry(outcome)) @@ @,
                           !.started_at =
                               IF last THEN @ ELSE (services[health.i + 1] :> later) @@ @]
    /\ UNCHANGED queryVars
    /\ UNCHANGED outsideHealth

HealthNext ==
    \/ HealthCheck
    \/ ProbeEnds

HealthSpec == HealthInit /\ [][HealthNext]_vars

(***************************************************************************)
(* C11: for every combination of probe outcomes, /health returns normally  *)
(* with exactly the keys gateway, document-service, llm-service and        *)
(* web-search-service; a dependency whose probe raises or times out is     *)
(* "unreachable", and each other dependency is reported by its own         *)
(* outcome: 200 is "healthy", any other status is "unhealthy".             *)
(***************************************************************************)
HealthOver == health.pc \in { "returned", "raised" }

C11_HealthReportsEachDependency ==
    HealthOver
        => /\ health.pc = "returned"
           /\ DOMAIN health.health_status =
                  { "gateway", "document-service", "llm-service", "web-search-service" }
           /\ health.health_status["gateway"] = "healthy"
           /\ \A name \in { "document-service", "llm-service", "web-search-service" } :
                 LET probe == health.probes[name]
                     entry == health.health_status[name]
                 IN /\ probe.kind = "raises" => entry = "unreachable"
                    /\ (probe.kind = "response" /\ probe.status_code = 200)
                           => entry = "healthy"
                    /\ (probe.kind = "response" /\ probe.status_code # 200)
                           => entry = "unhealthy"

\* The first probe times out, the second is answered 503, the third 200.
C11_Witness ==
    /\ health.pc = "returned"
    /\ health.probes["document-service"].exception = ReadTimeout
    /\ health.probes["llm-service"].status_code = 503
    /\ health.probes["web-search-service"].status_code = 200
    /\ health.health_status["document-service"] = "unreachable"
    /\ health.health_status["llm-service"] = "unhealthy"
    /\ health.health_status["web-search-service"] = "healthy"

(***************************************************************************)
(* C12: the probes are independent: the probe of one dependency starts     *)
(* without waiting for the probe of another to complete, so every probe    *)
(* starts when the handler is entered (time 0), however long another       *)
(* probe runs.                                                             *)
(***************************************************************************)
C12_ProbesStartWithoutWaiting ==
    \A name \in DOMAIN health.started_at : health.started_at[name] = 0

(***************************************************************************)
(* The chunker: DocumentProcessor._chunk_document (document_processor.py). *)
(***************************************************************************)
\* Longest document, in parts (runs of one character).
MaxParts == 3

\* chunk_size: int = 1000
DefaultChunkSize == 1000
\* if len(chunk.strip()) > 50
MinChunkLen == 50

ValueError == "ValueError"

\* The characters str.strip() removes.
Whitespace == { " ", "\t", "\n", "\r" }

\* A run of n copies of one character.
Run(ch, n) == [i \in 1..n |-> ch]

\* The runs documents are made of: one blank, and letters in runs of the
\* lengths around the filter's threshold, of 200 and of a whole default chunk.
DocumentParts ==
    { Run(" ", 1), Run("a", MinChunkLen), Run("b", MinChunkLen + 1),
      Run("c", 200), Run("d", DefaultChunkSize) }

\* document.text: up to MaxParts runs, one after the other.
DocumentTexts ==
    { Join(<< >>, parts) : parts \in UNION { [1..n -> DocumentParts] : n \in 0..MaxParts } }

\* The chunk sizes tried: negative, zero, around the threshold, the default.
ChunkSizes == { -1, 0, MinChunkLen + 1, MinChunkLen + 2, DefaultChunkSize }

\* text[i:j] for 0 <= i <= j
Slice(text, i, j) == SubSeq(text, i + 1, Min(j, Len(text)))

\* The first index from i on that holds no whitespace (Len + 1 if none).
RECURSIVE FirstInk(_, _)
FirstInk(text, i) ==
    IF i > Len(text) \/ text[i] \notin Whitespace THEN i ELSE FirstInk(text, i + 1)

\* The last index up to i that holds no whitespace (0 if none).
RECURSIVE LastInk(_, _)
LastInk(text, i) ==
    IF i < 1 \/ text[i] \notin Whitespace THEN i ELSE LastInk(text, i - 1)

\* text.strip()
Strip(text) == SubSeq(text, FirstInk(text, 1), LastInk(text, Len(text)))

\* Mutant: only the leading whitespace is removed.
LStrip(text) == SubSeq(text, FirstInk(text, 1), Len(text))

\* Mutant: the filter measures the chunk before it is stripped.
KeepsUnstripped(chunk) == Len(chunk) > MinChunkLen

\* if len(chunk.strip()) > 50
Keeps(chunk) == Len(Strip(chunk)) > MinChunkLen

\* chunks.append(chunk.strip()): what is appended for a kept chunk
Appended(chunk) == Strip(chunk)

\* list(range(first, limit, step)) for step # 0
RECURSIVE Range(_, _, _)
Range(first, limit, step) ==
    IF (step > 0 /\ first < limit) \/ (step < 0 /\ first > limit)
    THEN << first >> \o Range(first + step, limit, step)
    ELSE << >>

\* The loop body over the remaining starts i.
RECURSIVE ChunkLoop(_, _, _, _)
ChunkLoop(text, starts, chunk_size, chunks) ==
    IF starts = << >> THEN chunks
    ELSE LET chunk == Slice(text, Head(starts), Head(starts) + chunk_size)
         IN ChunkLoop(text, Tail(starts), chunk_size,
                      IF Keeps(chunk) THEN Append(chunks, Appended(chunk)) ELSE chunks)

\* _chunk_document(document, chunk_size): range() raises ValueError for a
\* zero step; otherwise the loop runs and chunks is returned.
ChunkDocument(text, chunk_size) ==
    IF chunk_size = 0
    THEN [raised |-> ValueError, chunks |-> << >>]
    ELSE [raised |-> NoException,
          chunks |-> ChunkLoop(text, Range(0, Len(text), chunk_size), chunk_size, << >>)]

outsideChunker == << health, quantizer, processor, wrapper >>

ChunkInit ==
    /\ QueryIdle
    /\ health = HealthIdle
    /\ quantizer = QuantizerIdle
    /\ processor = ProcessorIdle
    /\ wrapper = WrapperIdle
    /\ \E text \in DocumentTexts, chunk_size \in ChunkSizes :
          chunker = [ChunkerIdle EXCEPT !.pc = "called", !.text = text,
                                        !.chunk_size = chunk_size]

\* _chunk_document is applied to the document.
Chunk ==
    /\ chunker.pc = "called"
    /\ LET out == ChunkDocument(chunker.text, chunker.chunk_size)
       IN chunker' = [chunker EXCEPT !.pc = "chunked", !.chunks = out.chunks,
                                     !.raised = out.raised]
    /\ UNCHANGED queryVars
    /\ UNCHANGED outsideChunker

\* _chunk_document is applied again, to the concatenation of its chunks.
Rechunk ==
    /\ chunker.pc = "chunked"
    /\ chunker.raised = NoException
    /\ LET out == ChunkDocument(Join(<< >>, chunker.chunks), chunker.chunk_size)
       IN chunker' = [chunker EXCEPT !.pc = "rechunked", !.rechunked = out.chunks]
    /\ UNCHANGED queryVars
    /\ UNCHANGED outsideChunker

ChunkNext ==
    \/ Chunk
    \/ Rechunk

ChunkSpec == ChunkInit /\ [][ChunkNext]_vars

(***************************************************************************)
(* Vocabulary of the chunker's claims: the windows of the input,           *)
(* text[i*maxLen:(i+1)*maxLen] for i = 0, 1, ..., and those among them     *)
(* whose whitespace-trimmed length exceeds 50.                             *)
(***************************************************************************)
ChunkedValid == chunker.pc \in { "chunked", "rechunked" } /\ chunker.chunk_size >= 1

WindowCount(text, maxLen) == (Len(text) + maxLen - 1) \div maxLen

Window(text, i, maxLen) ==
    [k \in 1..(Min((i + 1) * maxLen, Len(text)) - i * maxLen) |-> text[i * maxLen + k]]

Windows(text, maxLen) ==
    [i \in 1..WindowCount(text, maxLen) |-> Window(text, i - 1, maxLen)]

TrimmedLen(text) == Len(Strip(text))

KeptWindows(text, maxLen) ==
    SelectSeq(Windows(text, maxLen), LAMBDA w : TrimmedLen(w) > 50)

(***************************************************************************)
(* C13: for every text and maxLen >= 1, no output chunk has a trimmed      *)
(* length of 50 or less, and there is one chunk for every window whose     *)
(* trimmed length exceeds 50, in window order.                             *)
(***************************************************************************)
C13_ShortWindowsAreDropped ==
    ChunkedValid
        => LET kept == KeptWindows(chunker.text, chunker.chunk_size)
           IN /\ chunker.raised = NoException
              /\ \A k \in 1..Len(chunker.chunks) : TrimmedLen(chunker.chunks[k]) > 50
              /\ Len(chunker.chunks) = Len(kept)
              /\ \A k \in 1..Len(kept) : Strip(chunker.chunks[k]) = Strip(kept[k])

\* A window of 51 characters whose trimmed length is exactly 50 is dropped
\* while another window is kept.
C13_Witness ==
    /\ ChunkedValid
    /\ Len(chunker.chunks) >= 1
    /\ \E i \in 1..WindowCount(chunker.text, chunker.chunk_size) :
          LET w == Windows(chunker.text, chunker.chunk_size)[i]
          IN Len(w) = 51 /\ TrimmedLen(w) = 50

(***************************************************************************)
(* C14: every emitted chunk is the characters of its window.  As claimed:  *)
(* exactly the window, whatever its leading or trailing whitespace.  As    *)
(* the chunker does it: the window with its leading and trailing           *)
(* whitespace removed; for a 1200-character document with maxLen = 1000    *)
(* whose windows neither begin nor end with whitespace, chunk 1 is the     *)
(* first 1000 characters and chunk 2 the remaining 200.                    *)
(***************************************************************************)
C14_Original_ChunkIsItsWindow ==
    ChunkedValid
        => LET kept == KeptWindows(chunker.text, chunker.chunk_size)
           IN /\ Len(chunker.chunks) = Len(kept)
              /\ \A k \in 1..Len(kept) : chunker.chunks[k] = kept[k]

Scenario1200 ==
    /\ Len(chunker.text) = 1200
    /\ chunker.chunk_size = 1000
    /\ \A k \in { 1, 1000, 1001, 1200 } : chunker.text[k] \notin Whitespace

C14_ChunkIsItsWindowTrimmed ==
    ChunkedValid
        => LET kept == KeptWindows(chunker.text, chunker.chunk_size)
           IN /\ Len(chunker.chunks) = Len(kept)
              /\ \A k \in 1..Len(kept) :
                    LET w == kept[k]
                        c == chunker.chunks[k]
                        lead == FirstInk(w, 1) - 1
                    IN /\ Len(c) = LastInk(w, Len(w)) - lead
                       /\ \A j \in 1..Len(c) : c[j] = w[lead + j]
              /\ Scenario1200
                    => chunker.chunks = << SubSeq(chunker.text, 1, 1000),
                                           SubSeq(chunker.text, 1001, 1200) >>

\* The 1200-character scenario: two chunks, of 1000 and of 200 characters.
C14_Witness ==
    /\ ChunkedValid
    /\ Scenario1200
    /\ Len(chunker.chunks) = 2
    /\ Len(chunker.chunks[1]) = 1000
    /\ Len(chunker.chunks[2]) = 200

(***************************************************************************)
(* C15: with maxLen <= 0 the chunker fails with a validation error for     *)
(* every input text; it never returns a chunk list.                        *)
(***************************************************************************)
C15_NonPositiveSizeFails ==
    (chunker.pc \in { "chunked", "rechunked" } /\ chunker.chunk_size <= 0)
        => chunker.raised # NoException

(***************************************************************************)
(* C16: chunking is idempotent: chunking the concatenation of the chunks   *)
(* with the same maxLen yields the same chunks.  As claimed: for every     *)
(* text and maxLen >= 1.  As it holds: whenever every produced chunk but   *)
(* the last is exactly maxLen characters long.                             *)
(***************************************************************************)
Rechunked == chunker.pc = "rechunked" /\ chunker.chunk_size >= 1

C16_Original_Idempotent ==
    Rechunked => chunker.rechunked = chunker.chunks

AllButLastFull ==
    \A k \in 1..(Len(chunker.chunks) - 1) : Len(chunker.chunks[k]) = chunker.chunk_size

C16_IdempotentOnFullChunks ==
    (Rechunked /\ AllButLastFull) => chunker.rechunked = chunker.chunks

\* Two chunks, the first full, from a text that lost characters to the
\* filter or to trimming.
C16_Witness ==
    /\ Rechunked
    /\ AllButLastFull
    /\ Len(chunker.chunks) >= 2
    /\ Len(Join(<< >>, chunker.chunks)) < Len(chunker.text)
    /\ chunker.rechunked = chunker.chunks

(***************************************************************************)
(* The quantizer: DocumentProcessor._binarize_embeddings, as called by     *)
(* process_documents (indexing) and by search_similar_chunks (querying).   *)
(* Only the sign of a component matters: components are -1, 0 or 1.        *)
(***************************************************************************)
\* Longest embedding, in groups of 8 components.
MaxOctets == 2

\* A group of 8 components that is positive at position p only, the rest
\* negative when p is odd and zero when p is even.
OneHot(p) == [i \in 1..8 |-> IF i = p THEN 1 ELSE IF p % 2 = 1 THEN -1 ELSE 0]

Octets ==
    { OneHot(p) : p \in 1..8 }
        \cup { [i \in 1..8 |-> 0], [i \in 1..8 |-> 1], [i \in 1..8 |-> -1],
               << 1, 0, -1, 1, 0, -1, 1, 0 >> }

\* One embedding: 8, 16, ... components.
Embeddings ==
    { Join(<< >>, groups) : groups \in UNION { [1..n -> Octets] : n \in 1..MaxOctets } }

\* Mutant: a zero component is quantized to 1.
BinaryOfNonNegative(x) == IF x >= 0 THEN 1 ELSE 0

\* (embeddings > 0).astype(np.uint8), one component
Binary(x) == IF x > 0 THEN 1 ELSE 0

\* One byte of np.packbits: 8 bits from position first on, the first bit the
\* most significant, bits past the end of the row taken as 0.
RECURSIVE PackByte(_, _, _)
PackByte(bits, first, k) ==
    IF k = 8 THEN 0
    ELSE (IF first + k <= Len(bits) THEN bits[first + k] ELSE 0) * (2 ^ (7 - k))
             + PackByte(bits, first, k + 1)

\* np.packbits(row): ceil(len / 8) bytes
PackBits(bits) ==
    [j \in 1..((Len(bits) + 7) \div 8) |-> PackByte(bits, 8 * (j - 1) + 1, 0)]

\* _binarize_embeddings(embeddings): every row thresholded and packed (axis=1)
BinarizeEmbeddings(embeddings) ==
    [r \in 1..Len(embeddings) |->
        PackBits([i \in 1..Len(embeddings[r]) |-> Binary(embeddings[r][i])])]

outsideQuantizer == << health, chunker, processor, wrapper >>

QuantizeInit ==
    /\ QueryIdle
    /\ health = HealthIdle
    /\ chunker = ChunkerIdle
    /\ processor = ProcessorIdle
    /\ wrapper = WrapperIdle
    /\ \E v \in Embeddings :
          quantizer = [QuantizerIdle EXCEPT !.pc = "embedded", !.embeddings = << v >>]

\* process_documents: binary_embeddings = self._binarize_embeddings(embeddings)
BinarizeForIndex ==
    /\ quantizer.pc = "embedded"
    /\ quantizer' = [quantizer EXCEPT !.pc = "indexed",
                                      !.packed = BinarizeEmbeddings(quantizer.embeddings)]
    /\ UNCHANGED queryVars
    /\ UNCHANGED outsideQuantizer

\* search_similar_chunks: binary_query = self._binarize_embeddings(query_embedding)
BinarizeForQuery ==
    /\ quantizer.pc = "embedded"
    /\ quantizer' = [quantizer EXCEPT !.pc = "queried",
                                      !.packed = BinarizeEmbeddings(quantizer.embeddings)]
    /\ UNCHANGED queryVars
    /\ UNCHANGED outsideQuantizer

QuantizeNext ==
    \/ BinarizeForIndex
    \/ BinarizeForQuery

QuantizeSpec == QuantizeInit /\ [][QuantizeNext]_vars

(***************************************************************************)
(* C17: for every dimension D divisible by 8 and every embedding of D      *)
(* components, the result has exactly D/8 bytes, in which bit i (most      *)
(* significant bit first) is 1 if and only if component i is strictly      *)
(* greater than 0; the same holds for indexed and for query vectors.       *)
(***************************************************************************)
\* Bit i (1-based, most significant first) of a packed row.
BitOf(row, i) == (row[((i - 1) \div 8) + 1] \div (2 ^ (7 - ((i - 1) % 8)))) % 2

C17_PackedSignBits ==
    (quantizer.pc \in { "indexed", "queried" })
        => /\ Len(quantizer.packed) = Len(quantizer.embeddings)
           /\ \A r \in 1..Len(quantizer.embeddings) :
                 LET v == quantizer.embeddings[r]
                     row == quantizer.packed[r]
                 IN (Len(v) % 8 = 0)
                       => /\ Len(row) * 8 = Len(v)
                          /\ \A j \in 1..Len(row) : row[j] \in 0..255
                          /\ \A i \in 1..Len(v) : BitOf(row, i) = 1 <=> v[i] > 0

\* A query vector of 16 components: the first byte holds only its second
\* bit (64), the second byte comes from positive, zero and negative ones.
C17_Witness ==
    /\ quantizer.pc = "queried"
    /\ quantizer.embeddings = << OneHot(2) \o << 1, 0, -1, 1, 0, -1, 1, 0 >> >>
    /\ quantizer.packed = << << 64, 146 >> >>

(***************************************************************************)
(* The document service: DocumentProcessor's constructor, process_documents *)
(* and search_similar_chunks, and the /search handler of app.py.  Milvus   *)
(* is a collaborator: it is reachable or not, holds at most one collection *)
(* named document_embeddings, and answers a search with hits of its own    *)
(* choosing among the stored rows.                                         *)
(*   processor.collections   collections named document_embeddings (0, 1)  *)
(*   processor.rows          the texts of the committed (flushed) rows     *)
(*   processor.pending       the batches inserted and not flushed yet      *)
(*   processor.dropped       how many rows the constructor's drop removed  *)
(*   processor.last_request  the request handled last: upload or search    *)
(*   processor.batch, upload_status    the chunks of the last upload and   *)
(*                           the status process_documents returned         *)
(*   processor.upload_code, client_code   the HTTP status of that upload   *)
(*                           at the document service and at the gateway    *)
(*   processor.searched      the rows the last collection.search ran over  *)
(*   processor.raised        the exception the constructor ended with      *)
(*   processor.returned      what search_similar_chunks returned           *)
(*   processor.search_raised the exception search_similar_chunks caught    *)
(*   processor.status_code, processor.body   the answer of POST /search,   *)
(*                           body being the list under "results"           *)
(***************************************************************************)
\* Most rows the collection holds.
MaxRows == 2

\* query.get("top_k", 5)
DefaultTopK == 5

MilvusException == "MilvusException"
HTTPException == "HTTPException"

\* get_sentence_embedding_dimension() of the model that is loaded; 1024 is
\* that of BAAI/bge-large-en-v1.5.
Dimensions == { 4, 12, 1024 }

ChunkTexts == { "t1", "t2" }

\* Batches of chunks an upload stores.
Batches == UNION { [1..n -> ChunkTexts] : n \in 1..MaxRows }

\* Hamming distances Milvus reports.
Distances == { 0, 7 }

\* The bodies POST /search is called with.
SearchQueries ==
    { [keys |-> ks, query |-> q, top_k |-> k] :
        ks \in { {}, { "query" }, { "query", "top_k" } }, q \in { "", "q" }, k \in { 1 } }

\* Mutant: no dimension is refused.
DimensionNeverRejected(d) == FALSE

\* if self.dimension % 8 != 0: raise ValueError
DimensionRejected(d) == d % 8 /= 0

\* collection.search(..., limit=top_k, output_fields=["text", "text_hash"]):
\* up to limit hits, each a stored row with its distance.
MilvusHits(rows, limit) ==
    UNION { [1..n -> { [text |-> rows[i], distance |-> d] :
                          i \in 1..Len(rows), d \in Distances }] :
            n \in 0..Min(limit, Len(rows)) }

\* 1 / (1 + hit.distance), in thousandths
Score(distance) == 1000 \div (1 + distance)

\* The dict appended for every hit.
SimilarChunks(hits) ==
    [i \in 1..Len(hits) |->
        [text |-> hits[i].text, distance |-> hits[i].distance,
         score |-> Score(hits[i].distance)]]

\* Where the processing of an upload raises, if anywhere: saving the files
\* (app.py), reading them, embedding the chunks, or one of the three calls
\* of _store_embeddings.
Faults == { "never", "save", "read", "embed", "insert", "flush", "load" }

\* Mutant: the rows are inserted and loaded, never flushed.
StoreStepsWithoutFlush == << "insert", "load" >>

\* self.collection.insert(entities); .flush(); .load()
StoreSteps == << "insert", "flush", "load" >>

\* One call of _store_embeddings on the Milvus state [rows, pending].
StoreStep(store, step, batch) ==
    IF step = "insert" THEN [store EXCEPT !.pending = Append(@, batch)]
    ELSE IF step = "flush"
    THEN [rows |-> store.rows \o Join(<< >>, store.pending), pending |-> << >>]
    ELSE store

\* _store_embeddings: the calls in order, up to the one that raises.
RECURSIVE StoreEmbeddings(_, _, _, _)
StoreEmbeddings(store, steps, batch, fault) ==
    IF steps = << >> \/ Head(steps) = fault THEN store
    ELSE StoreEmbeddings(StoreStep(store, Head(steps), batch), Tail(steps), batch, fault)

\* The batches of pending whose positions are in chosen, concatenated.
RECURSIVE Chosen(_, _, _)
Chosen(pending, chosen, i) ==
    IF i > Len(pending) THEN << >>
    ELSE (IF i \in chosen THEN pending[i] ELSE << >>) \o Chosen(pending, chosen, i + 1)

\* The rows a search runs over: the committed rows and, of every batch
\* inserted and not flushed, all of its rows or none.
Snapshots(rows, pending) ==
    { rows \o Chosen(pending, chosen, 1) : chosen \in SUBSET (1..Len(pending)) }

\* response.raise_for_status() in the gateway's upload_documents: an error
\* status of the document service is passed on, any other answer is 200.
GatewayUploadCode(code) == IF code >= 400 THEN code ELSE StatusOk

\* Mutant: the collection of an earlier run is not noticed, and is kept.
has_no_collection(collections) == FALSE

\* utility.has_collection(self.collection_name)
has_collection(collections) == collections > 0

outsideProcessor == << health, chunker, quantizer, wrapper >>

\* The service is about to start: Milvus is up or down, and the collection
\* of an earlier run may exist, with or without rows.
ProcessorInit ==
    /\ QueryIdle
    /\ health = HealthIdle
    /\ chunker = ChunkerIdle
    /\ quantizer = QuantizerIdle
    /\ wrapper = WrapperIdle
    /\ \E up \in BOOLEAN, before \in { << >> } \cup Batches :
          \E existing \in (IF before = << >> THEN { 0, 1 } ELSE { 1 }) :
             processor = [ProcessorIdle EXCEPT !.pc = "starting", !.reachable = up,
                                               !.collections = existing, !.rows = before]

\* processor = DocumentProcessor(): the model is loaded, its dimension is
\* validated, then _connect_milvus() and _create_collection() run; the
\* latter drops the collection if there is one and creates it anew.
Construct ==
    /\ processor.pc = "starting"
    /\ \E d \in Dimensions :
          processor' =
              IF DimensionRejected(d)
              THEN [processor EXCEPT !.pc = "failed", !.dimension = d, !.raised = ValueError]
              ELSE IF ~processor.reachable
              THEN [processor EXCEPT !.pc = "failed", !.dimension = d,
                                     !.raised = MilvusException]
              ELSE IF has_collection(processor.collections)
              THEN [processor EXCEPT !.pc = "ready", !.dimension = d, !.connected = TRUE,
                                     !.drops = @ + 1,
                                     !.creates = @ + 1,
                                     !.dropped = Len(processor.rows)
                                                    + Len(Join(<< >>, processor.pending)),
                                     !.rows = << >>,
                                     !.pending = << >>]
              ELSE [processor EXCEPT !.pc = "ready", !.dimension = d, !.connected = TRUE,
                                     !.creates = @ + 1,
                                     !.collections = 1]
    /\ UNCHANGED queryVars
    /\ UNCHANGED outsideProcessor

\* The service process ends and is started again: Milvus keeps what it
\* holds, the process starts from nothing.
Restart ==
    /\ processor.pc \in { "ready", "failed" }
    /\ processor' = [ProcessorIdle EXCEPT !.pc = "starting",
                                          !.reachable = processor.reachable,
                                          !.collections = processor.collections,
                                          !.rows = processor.rows,
                                          !.pending = processor.pending]
    /\ UNCHANGED queryVars
    /\ UNCHANGED outsideProcessor

\* Milvus stops answering.
StoreGoesDown ==
    /\ processor.pc \in { "ready", "failed" }
    /\ processor.reachable
    /\ processor' = [processor EXCEPT !.reachable = FALSE]
    /\ UNCHANGED queryVars
    /\ UNCHANGED outsideProcessor

\* Milvus answers again.
StoreComesUp ==
    /\ processor.pc \in { "ready", "failed" }
    /\ ~processor.reachable
    /\ processor' = [processor EXCEPT !.reachable = TRUE]
    /\ UNCHANGED queryVars
    /\ UNCHANGED outsideProcessor

\* POST /upload-documents at the gateway, passed on to the document
\* service: the files are saved, then process_documents reads, chunks,
\* embeds and stores them.  process_documents catches every exception and
\* returns status "error"; the document service answers 200 with whatever
\* process_documents returned, and 500 if saving the files raised; the
\* gateway passes an error status on and answers 200 otherwise.  Milvus
\* raises when it is or becomes unreachable.  The answer replaces that of
\* the request before it.
ProcessDocuments ==
    /\ processor.pc = "ready"
    /\ \E batch \in Batches, fault \in Faults :
          /\ Len(processor.rows) + Len(Join(<< >>, processor.pending)) + Len(batch) <= MaxRows
          /\ processor.reachable \/ fault \in { "save", "read", "embed", "insert" }
          /\ LET stored == IF fault \in { "save", "read", "embed" }
                           THEN [rows |-> processor.rows, pending |-> processor.pending]
                           ELSE StoreEmbeddings([rows |-> processor.rows,
                                                 pending |-> processor.pending],
                                                StoreSteps, batch, fault)
                 code == IF fault = "save" THEN StatusInternalError ELSE StatusOk
             IN processor' =
                    [processor EXCEPT
                        !.last_request = "upload",
                        !.searched = << >>,
                        !.returned = << >>,
                        !.search_raised = NoException,
                        !.status_code = 0,
                        !.body = << >>,
                        !.batch = batch,
                        !.rows = stored.rows,
                        !.pending = stored.pending,
                        !.reachable = IF fault \in { "insert", "flush", "load" }
                                      THEN FALSE ELSE @,
                        !.upload_status = IF fault = "save" THEN ""
                                          ELSE IF fault = "never" THEN "success"
                                          ELSE "error",
                        !.upload_code = code,
                        !.client_code = GatewayUploadCode(code)]
    /\ UNCHANGED queryVars
    /\ UNCHANGED outsideProcessor

\* The processor once a search request has replaced the answer of the
\* request before it.
Searching ==
    [processor EXCEPT !.last_request = "search", !.batch = << >>, !.upload_status = "",
                      !.upload_code = 0, !.client_code = 0]

\* POST /search: search_documents of app.py calling search_similar_chunks.
\* The HTTPException for an empty query is raised inside the try block and
\* caught by its except Exception; search_similar_chunks catches whatever
\* collection.search raises and returns [].
SearchSimilar ==
    /\ processor.pc = "ready"
    /\ \E query \in SearchQueries :
          LET query_text == DictGet(query, "query", "")
              top_k == DictGet(query, "top_k", DefaultTopK)
          IN IF query_text = ""
             THEN processor' = [Searching EXCEPT !.searched = << >>,
                                                 !.returned = << >>,
                                                 !.search_raised = HTTPException,
                                                 !.status_code = StatusInternalError,
                                                 !.body = << >>]
             ELSE IF ~processor.reachable
             THEN processor' = [Searching EXCEPT !.searched = << >>,
                                                 !.returned = << >>,
                                                 !.search_raised = MilvusException,
                                                 !.status_code = StatusOk,
                                                 !.body = << >>]
             ELSE \E seen \in Snapshots(processor.rows, processor.pending) :
                     \E hits \in MilvusHits(seen, top_k) :
                        processor' = [Searching EXCEPT !.searched = seen,
                                                       !.returned = SimilarChunks(hits),
                                                       !.search_raised = NoException,
                                                       !.status_code = StatusOk,
                                                       !.body = SimilarChunks(hits)]
    /\ UNCHANGED queryVars
    /\ UNCHANGED outsideProcessor

ProcessorNext ==
    \/ Construct
    \/ Restart
    \/ StoreGoesDown
    \/ StoreComesUp
    \/ ProcessDocuments
    \/ SearchSimilar

ProcessorSpec == ProcessorInit /\ [][ProcessorNext]_vars

(***************************************************************************)
(* C18: constructing DocumentProcessor with an embedding dimension that is *)
(* not divisible by 8 fails with a configuration error (ValueError), before *)
(* any connection to the vector store is made and before any collection is *)
(* dropped or created.                                                     *)
(***************************************************************************)
C18_BadDimensionFailsBeforeStore ==
    (processor.pc \notin { "idle", "starting" } /\ processor.dimension % 8 /= 0)
        => /\ processor.pc = "failed"
           /\ processor.raised = ValueError
           /\ ~processor.connected
           /\ processor.drops = 0
           /\ processor.creates = 0

\* Dimension 12 with Milvus up and a collection holding a row: the
\* constructor ends in ValueError and the collection is still there.
C18_Witness ==
    /\ processor.pc = "failed"
    /\ processor.dimension = 12
    /\ processor.raised = ValueError
    /\ processor.reachable
    /\ processor.collections = 1
    /\ processor.rows = << "t1" >>
    /\ ~processor.connected
    /\ processor.drops = 0

(***************************************************************************)
(* C20: when the vector store is unreachable, a search fails with a        *)
(* storage error the caller can tell from the empty result of searching an *)
(* empty store: the answer is not 200 with an empty result list.           *)
(***************************************************************************)
C20_UnreachableStoreIsAnError ==
    (processor.search_raised = MilvusException)
        => ~(processor.status_code = StatusOk /\ processor.body = << >>)

(***************************************************************************)
(* C21: under any interleaving of upload and search requests on the        *)
(* document service, once an upload has returned success every row of its  *)
(* batch is among the rows every later search runs over, and a search that *)
(* runs while a batch is inserted and not yet committed runs over none of  *)
(* that batch's rows or over all of them, never over a part of the batch.  *)
(* The requests are handled one at a time: both handlers are coroutines    *)
(* that never await, so a search runs before the insert of an upload or    *)
(* after its load, or after an upload that failed between the two.         *)
(***************************************************************************)
IsPrefix(a, b) == Len(a) <= Len(b) /\ SubSeq(b, 1, Len(a)) = a

IsSuffix(a, b) == Len(a) <= Len(b) /\ SubSeq(b, Len(b) - Len(a) + 1, Len(b)) = a

\* The search request handled last was answered by Milvus.
SearchAnswered ==
    /\ processor.last_request = "search"
    /\ processor.status_code = StatusOk
    /\ processor.search_raised = NoException

\* What a search ran over beyond the committed rows is made of whole
\* batches: it can be cut into pending batches taken in order.
RECURSIVE WholeBatches(_, _)
WholeBatches(extra, pending) ==
    IF extra = << >> THEN TRUE
    ELSE IF pending = << >> THEN FALSE
    ELSE \/ WholeBatches(extra, Tail(pending))
         \/ /\ IsPrefix(Head(pending), extra)
            /\ WholeBatches(SubSeq(extra, Len(Head(pending)) + 1, Len(extra)),
                            Tail(pending))

C22_FailedUploadIsAnErrorStatus ==
    (processor.last_request = "upload" /\ processor.upload_status /= "success")
        => processor.client_code >= 400

(***************************************************************************)
(* C27: index entries are removed only by dropping and recreating the      *)
(* collection, and the construction of DocumentProcessor performs that     *)
(* drop whenever the collection exists: right after every construction     *)
(* the collection is empty, so a search after a restart runs over, and     *)
(* returns, only rows stored since.                                        *)
(***************************************************************************)
\* The texts of a sequence of rows or of hits.
Texts(rows) == { rows[i] : i \in 1..Len(rows) }

\* How many rows the collection holds, committed or not.
Held(p) == Len(p.rows) + Len(Join(<< >>, p.pending))

C27_ConstructionEmptiesTheCollection ==
    /\ []((processor.pc = "ready" /\ processor.last_request = "")
            => /\ processor.rows = << >>
               /\ processor.pending = << >>
               /\ processor.collections = 1
               /\ processor.creates = 1)
    /\ [](SearchAnswered
            => /\ Texts(processor.searched)
                     \subseteq Texts(processor.rows \o Join(<< >>, processor.pending))
               /\ \A i \in 1..Len(processor.returned) :
                     processor.returned[i].text \in Texts(processor.searched))
    /\ [][(processor.pc = "starting" /\ processor'.pc = "ready")
             => processor'.drops = processor.collections]_vars
    /\ [][(~IsPrefix(processor.rows, processor'.rows)
              \/ Held(processor') < Held(processor))
             => /\ processor.pc = "starting"
                /\ processor'.pc = "ready"
                /\ processor'.drops = 1]_vars

\* A search right after a restart whose construction dropped a collection
\* of two rows: it is answered, with no hit.
C27_Witness ==
    /\ SearchAnswered
    /\ processor.drops = 1
    /\ processor.dropped = 2
    /\ processor.rows = << >>
    /\ processor.pending = << >>
    /\ processor.returned = << >>

(***************************************************************************)
(* The web-search service: search_endpoint of fastapi_wrapper.py, called   *)
(* by the gateway's search_web and by clients that speak its own protocol. *)
(*   wrapper.mcp_server   BingSearchMCP() was constructed (else it is None) *)
(*   wrapper.caller       who sent the last POST /search                   *)
(*   wrapper.pages        the pages Bing holds for the query of that call  *)
(*   wrapper.method       the method the handler settled on                *)
(*   wrapper.rejected     the status of the HTTPException raised inside    *)
(*                        the handler's try block, 0 if none was           *)
(*   wrapper.status_code, answer_keys, found   the answer: its status, the *)
(*                        keys of its JSON object, and the list under      *)
(*                        result.results                                   *)
(*   wrapper.raised, web_results   what search_web raised or returned      *)
(*   wrapper.query_method the method of the /query that called search_web  *)
(*                        with no document context                         *)
(***************************************************************************)
\* Most pages Bing returns for a query.
MaxPages == 2

\* "score": 1.0, in thousandths
WrapperScore == 1000

StatusMcpUnavailable == 503
StatusBadRequest == 400

NoParams == [keys |-> {}]
QueryParams == [keys |-> { "query" }]

\* json={"query": query, "num_results": 5}
GatewayBody == [keys |-> { "query", "num_results" }, method |-> "", params |-> NoParams]

\* Bodies in the wrapper's own protocol: {"method": ..., "params": {...}}.
ClientBodies ==
    { [keys |-> { "method", "params" }, method |-> m, params |-> ps] :
        m \in { "search", "bing_web_search", "bing_news_search", "bing_image_search",
                "translate" },
        ps \in { NoParams, QueryParams } }
      \cup { [keys |-> { "params" }, method |-> "", params |-> QueryParams] }

\* The methods search_endpoint passes on to a tool handler.
SupportedMethods == { "bing_web_search", "bing_news_search", "bing_image_search" }

\* A page of Bing's answer; a key may be missing.
BingPages ==
    { [keys |-> { "name", "url", "snippet" }, name |-> "n", url |-> "u", snippet |-> "s"],
      [keys |-> { "name", "url" }, name |-> "m", url |-> "v", snippet |-> ""],
      [keys |-> {}, name |-> "", url |-> "", snippet |-> ""] }

PageLists == UNION { [1..n -> BingPages] : n \in 0..MaxPages }

\* A page once the tool has written it as text and search_endpoint has
\* parsed the text: the title, the URL and the snippet, with the tool's
\* defaults for missing keys, and score 1.0.
ParsedPage(page) ==
    [title |-> DictGet(page, "name", "No title"),
     url |-> DictGet(page, "url", "No URL"),
     content |-> DictGet(page, "snippet", "No snippet"),
     score |-> WrapperScore]

\* mcp_server.server._tool_handlers.get(method): a handler, None, or an
\* exception of the lookup itself.
Lookups == { "handler", "none", "raises" }

\* An HTTPException answer: {"detail": ...}.
ErrorAnswer(code, rejected, tool) ==
    [status_code |-> code, rejected |-> rejected, answer_keys |-> { "detail" },
     found |-> << >>, method |-> tool]

\* {"id": ..., "result": {"query", "results", "searchResultsCount"}, "session_id": ...}
ResultAnswer(pages, tool) ==
    [status_code |-> StatusOk, rejected |-> 0,
     answer_keys |-> { "id", "result", "session_id" },
     found |-> [i \in 1..Len(pages) |-> ParsedPage(pages[i])], method |-> tool]

\* except Exception as e: raise HTTPException(status_code=500, ...) which
\* also catches the HTTPException raised a few lines above.
SearchRejected(status) == StatusInternalError

\* search_endpoint: the answers it can give to body, Bing holding pages.
\* A handler called without the query its tool requires raises TypeError,
\* which the except Exception turns into 500 like a failed lookup.
SearchEndpoint(mcp_server, body, pages) ==
    IF ~mcp_server THEN { ErrorAnswer(StatusMcpUnavailable, 0, "") }
    ELSE LET named == DictGet(body, "method", "bing_web_search")
             params == DictGet(body, "params", NoParams)
             tool == IF named = "search" THEN "bing_web_search" ELSE named
         IN IF tool \notin SupportedMethods
            THEN { ErrorAnswer(SearchRejected(StatusBadRequest), StatusBadRequest, tool) }
            ELSE { IF lookup = "raises" THEN ErrorAnswer(StatusInternalError, 0, tool)
                   ELSE IF lookup = "none"
                   THEN ErrorAnswer(SearchRejected(StatusBadRequest), StatusBadRequest, tool)
                   ELSE IF "query" \notin params.keys
                   THEN ErrorAnswer(StatusInternalError, 0, tool)
                   ELSE ResultAnswer(pages, tool) : lookup \in Lookups }

\* search_web after the answer: raise_for_status(), then
\* response.json().get("results", []).
SearchWebReturn(answer) ==
    IF answer.status_code >= 400
    THEN [raised |-> HTTPStatusError, web_results |-> << >>]
    ELSE [raised |-> NoException,
          web_results |-> IF "results" \in answer.answer_keys THEN answer.found ELSE << >>]

outsideWrapper == << health, chunker, quantizer, processor >>

WrapperInit ==
    /\ QueryIdle
    /\ health = HealthIdle
    /\ chunker = ChunkerIdle
    /\ quantizer = QuantizerIdle
    /\ processor = ProcessorIdle
    /\ wrapper = [WrapperIdle EXCEPT !.pc = "starting"]

\* The module is imported: mcp_server = BingSearchMCP(), or None when the
\* constructor raises (no BING_API_KEY).
StartWrapper ==
    /\ wrapper.pc = "starting"
    /\ \E has_key \in BOOLEAN :
          wrapper' = [wrapper EXCEPT !.pc = "serving", !.mcp_server = has_key]
    /\ UNCHANGED queryVars
    /\ UNCHANGED outsideWrapper

\* process_query with use_web_search and no document context calls
\* search_web, which posts GatewayBody; an exception of search_web other
\* than RetryError leaves process_query.
GatewaySearchWeb ==
    /\ wrapper.pc = "serving"
    /\ \E pages \in PageLists :
          \E answer \in SearchEndpoint(wrapper.mcp_server, GatewayBody, pages) :
             LET back == SearchWebReturn(answer)
             IN wrapper' =
                    [wrapper EXCEPT
                        !.caller = "gateway",
                        !.pages = pages,
                        !.method = answer.method,
                        !.rejected = answer.rejected,
                        !.status_code = answer.status_code,
                        !.answer_keys = answer.answer_keys,
                        !.found = answer.found,
                        !.raised = back.raised,
                        !.web_results = back.web_results,
                        !.query_method =
                            IF back.raised /= NoException /\ ~Caught(back.raised) THEN ""
                            ELSE MethodOrDirect(IF back.web_results /= << >>
                                                THEN "web_search" ELSE "")]
    /\ UNCHANGED queryVars
    /\ UNCHANGED outsideWrapper

\* A client posts a body of the wrapper's own protocol.
ClientSearch ==
    /\ wrapper.pc = "serving"
    /\ \E body \in ClientBodies, pages \in PageLists :
          \E answer \in SearchEndpoint(wrapper.mcp_server, body, pages) :
             wrapper' = [wrapper EXCEPT
                            !.caller = "client",
                            !.pages = pages,
                            !.method = answer.method,
                            !.rejected = answer.rejected,
                            !.status_code = answer.status_code,
                            !.answer_keys = answer.answer_keys,
                            !.found = answer.found,
                            !.raised = NoException,
                            !.web_results = << >>,
                            !.query_method = ""]
    /\ UNCHANGED queryVars
    /\ UNCHANGED outsideWrapper

WrapperNext ==
    \/ StartWrapper
    \/ GatewaySearchWeb
    \/ ClientSearch

WrapperSpec == WrapperInit /\ [][WrapperNext]_vars

(***************************************************************************)
(* C23: the gateway and the web-search service agree on the /search        *)
(* exchange: for the gateway's body {query, num_results}, whenever the     *)
(* service is up and there is at least one result to find, search_web      *)
(* returns a non-empty list of {title, content, score} items, and the      *)
(* /query that called it with no document context ends with method         *)
(* web_search.                                                             *)
(***************************************************************************)
C23_GatewayGetsTheWebResults ==
    (wrapper.caller = "gateway" /\ wrapper.mcp_server /\ wrapper.pages /= << >>)
        => /\ wrapper.web_results /= << >>
           /\ wrapper.query_method = "web_search"

(***************************************************************************)
(* C24: a client-error rejection raised inside a service's POST /search    *)
(* handler reaches the client with status 400: the document service        *)
(* answers 400 for a missing or empty query, without querying the store,   *)
(* and the web-search wrapper answers 400 for an unsupported method.       *)
(***************************************************************************)
C24_RejectionsAnswer400 ==
    /\ (processor.last_request = "search" /\ processor.search_raised = HTTPException)
          => /\ processor.status_code = StatusBadRequest
             /\ processor.searched = << >>
    /\ (wrapper.rejected = StatusBadRequest)
          => wrapper.status_code = StatusBadRequest

(***************************************************************************)
(* C25: in every successful /query response, for any collaborator outputs  *)
(* (hits with empty text included).  As claimed: method is "direct" if and *)
(* only if sources is empty if and only if confidence is 0.3.  As the      *)
(* handler does it: method is "direct" if and only if sources is empty,    *)
(* and then confidence is 0.3 and no context is sent to generation; method *)
(* "web_search" comes with confidence 0.8 and a non-empty context; method  *)
(* "document" comes with confidence 0.8 and a non-empty context unless the *)
(* document search returned a single hit whose text is empty, and then the *)
(* context is empty and confidence is 0.3.                                 *)
(***************************************************************************)
C25_Original_DirectIffNoSourcesIffLowConfidence ==
    Succeeded
        => /\ response.method = "direct" <=> response.sources = << >>
           /\ response.sources = << >> <=> response.confidence = ConfidenceWithoutContext

\* The document search returned one hit, and its text is empty.
SingleEmptyHit == Len(doc_results) = 1 /\ doc_results[1].text = << >>

C25_MethodSourcesAndConfidence ==
    Succeeded
        => /\ response.method \in { "document", "web_search", "direct" }
           /\ response.method = "direct" <=> response.sources = << >>
           /\ response.method = "direct"
                 => /\ response.confidence = ConfidenceWithoutContext
                    /\ gen_context = << >>
           /\ response.method = "web_search"
                 => /\ response.confidence = ConfidenceWithContext
                    /\ gen_context /= << >>
           /\ (response.method = "document" /\ ~SingleEmptyHit)
                 => /\ response.confidence = ConfidenceWithContext
                    /\ gen_context /= << >>
           /\ (response.method = "document" /\ SingleEmptyHit)
                 => /\ response.confidence = ConfidenceWithoutContext
                    /\ gen_context = << >>

\* One document hit with an empty text and no web search: the answer has
\* method "document", one source and confidence 0.3.
C25_Witness ==
    /\ Succeeded
    /\ ~request.use_web_search
    /\ SingleEmptyHit
    /\ response.method = "document"
    /\ Len(response.sources) = 1
    /\ response.confidence = ConfidenceWithoutContext

(***************************************************************************)
(* C26: the gateway's /health reports a dependency as "healthy" only if    *)
(* that dependency can serve requests: when the LLM service's model failed *)
(* to load (its /generate answers 503) or the web-search wrapper's MCP     *)
(* server failed to initialise (its /search answers 503), the gateway does *)
(* not report that service as "healthy".                                   *)
(***************************************************************************)
C26_HealthyOnlyIfLoaded ==
    \A name \in LoadingServices :
        (name \in DOMAIN health.health_status /\ health.health_status[name] = "healthy")
            => health.loaded[name]

=============================================================================
